---- MODULE Spec2Model ----
(***************************************************************************)
(* BufferedDocument (packages/@sanity/mutator/src/document):               *)
(* the optimistic view LOCAL, the mutation buffer, the commit queue        *)
(* and the committer loop, on top of the Document tracker (HEAD, EDGE,     *)
(* pending) and the Mutation algebra, which live outside this file.        *)
(***************************************************************************)
EXTENDS Integers, Sequences, FiniteSets

(* ------------------------------ bounds --------------------------------- *)
\* how many add() calls a run makes
MaxAdds == 2
\* how many remote mutations arrive in a run
MaxArrivals == 1
\* how many reset() calls a run makes
MaxResets == 1
\* how many commit attempts (transaction ids) a run hands to the transport
MaxAttempts == 2

(* ------------------------ documents and mutations ---------------------- *)
\* A snapshot: the deleted sentinel (null), or a document with a revision
\* marker (_rev) and a content (one counter field).
NULL == [exists |-> FALSE, rev |-> 0, val |-> 0]

Doc(r, v) == [exists |-> TRUE, rev |-> r, val |-> v]

\* local edits the caller may add
LocalMutations == {"inc", "del"}

\* mutations of other clients, as they arrive from the server
RemoteMutations == {"inc", "touch", "del"}

\* snapshots a caller hands to reset()
ResetDocs == {NULL, Doc(7, 0)}

\* Mutation.apply of a local edit: a patch of a deleted document has no
\* effect, any other mutation returns the document it was given.
Apply(doc, m) ==
    IF doc = NULL THEN NULL
    ELSE IF m = "inc" THEN [doc EXCEPT !.val = @ + 1]
    ELSE IF m = "del" THEN NULL
    ELSE doc

RECURSIVE ApplyAll(_, _)
\* Mutation.applyAll: the mutations in order
ApplyAll(doc, ms) ==
    IF ms = <<>> THEN doc ELSE ApplyAll(Apply(doc, Head(ms)), Tail(ms))

\* a remote mutation applied by the tracker: it also moves the revision
ApplyRemote(doc, m) ==
    IF doc = NULL THEN NULL
    ELSE IF m = "inc" THEN [doc EXCEPT !.val = @ + 1, !.rev = @ + 1]
    ELSE IF m = "del" THEN NULL
    ELSE [doc EXCEPT !.rev = @ + 1]

\* Commit.apply
CommitApply(doc, commit) == ApplyAll(doc, commit.mutations)

RECURSIVE ApplyCommits(_, _)
\* this.commits.reduce((doc, commit) => commit.apply(doc), EDGE)
ApplyCommits(doc, cs) ==
    IF cs = <<>> THEN doc ELSE ApplyCommits(CommitApply(doc, Head(cs)), Tail(cs))

\* Commit.squash: one transmittable operation equivalent to the commit's
\* mutations (applying it is applying them in order), with a fresh
\* transaction id
Squash(commit, txn) == [txn |-> txn, ops |-> commit.mutations]

\* new Commit(mutations); id stands for the object's identity (creation order)
NewCommit(id, ms) == [id |-> id, mutations |-> ms, tries |-> 0]

RECURSIVE ApplyPending(_, _)
\* the tracker's EDGE: HEAD with the staged operations on top
ApplyPending(doc, ps) ==
    IF ps = <<>> THEN doc ELSE ApplyPending(ApplyAll(doc, Head(ps).ops), Tail(ps))

\* lodash isEqual without the copy of the revision marker
IsEqualWithRev(new, old) == new = old

\* lodash isEqual after "oldLocal._rev = this.LOCAL._rev"
IsEqualAfterRevCopy(new, old) ==
    IF old # NULL /\ new # NULL THEN [old EXCEPT !.rev = new.rev] = new
    ELSE new = old

(* ------------------------------- state --------------------------------- *)
VARIABLES
    HEAD,             \* tracker: last state confirmed by the server
    EDGE,             \* tracker: document.EDGE, HEAD plus staged operations
    pending,          \* tracker: staged operations awaiting their responder
    local,            \* optimistic snapshot (this.LOCAL; LOCAL is a TLA+ keyword)
    mutations,        \* mutation buffer
    commits,          \* commit queue
    committerRunning, \* the committer loop's flag
    commitHandler,    \* TRUE when a transport handler is configured
    eagerTracker,     \* TRUE when the tracker reports every recomputation
    inflight,         \* attempts handed to the transport, callback not yet made
    timers,           \* retry timers (setTimeout) that have not fired yet
    nextTxn,          \* transaction ids handed out so far
    nextCommit,       \* Commit objects created so far
    nAdds, nArrivals, nResets,
    op,               \* the operation that produced this state
    events,           \* notifications and collaborator calls made by op
    thrown,           \* TRUE when op raised an error to its caller
    awaitingRetry,    \* history: commits whose last attempt failed
    run               \* history: the add() calls since the last quiet state

vars == <<HEAD, EDGE, pending, local, mutations, commits, committerRunning,
          commitHandler, eagerTracker, inflight, timers, nextTxn, nextCommit,
          nAdds, nArrivals, nResets, op, events, thrown, awaitingRetry, run>>

\* the program's fields as one record, so that a handler is a composition
\* of the steps its code makes
State ==
    [HEAD |-> HEAD, EDGE |-> EDGE, pending |-> pending, local |-> local,
     mutations |-> mutations, commits |-> commits,
     committerRunning |-> committerRunning, inflight |-> inflight,
     timers |-> timers, nextTxn |-> nextTxn, nextCommit |-> nextCommit,
     events |-> <<>>, thrown |-> FALSE]

Become(s) ==
    /\ HEAD' = s.HEAD
    /\ EDGE' = s.EDGE
    /\ pending' = s.pending
    /\ local' = s.local
    /\ mutations' = s.mutations
    /\ commits' = s.commits
    /\ committerRunning' = s.committerRunning
    /\ inflight' = s.inflight
    /\ timers' = s.timers
    /\ nextTxn' = s.nextTxn
    /\ nextCommit' = s.nextCommit
    /\ events' = s.events
    /\ thrown' = s.thrown

Emit(s, e) == [s EXCEPT !.events = Append(@, e)]

(* ------------------------- BufferedDocument ---------------------------- *)
\* handleDocumentDeleted
HandleDocumentDeleted(s) ==
    LET s1 == IF s.local # NULL
              THEN Emit(s, [type |-> "onDelete", doc |-> s.local])
              ELSE s
    IN [s1 EXCEPT !.commits = <<>>, !.mutations = <<>>]

\* rebase that notifies but does not store the recomputed snapshot
RebaseKeepsLocal(s) ==
    LET s1 == IF s.EDGE = NULL THEN HandleDocumentDeleted(s) ELSE s
        oldLocal == s1.local
        newLocal == ApplyAll(ApplyCommits(s1.EDGE, s1.commits), s1.mutations)
        changed == ~IsEqualAfterRevCopy(newLocal, oldLocal)
    IN IF changed THEN Emit(s1, [type |-> "onRebase", doc |-> newLocal]) ELSE s1

\* rebase
Rebase(s) ==
    LET s1 == IF s.EDGE = NULL THEN HandleDocumentDeleted(s) ELSE s
        oldLocal == s1.local
        newLocal == ApplyAll(ApplyCommits(s1.EDGE, s1.commits), s1.mutations)
        changed == ~IsEqualAfterRevCopy(newLocal, oldLocal)
        s2 == [s1 EXCEPT !.local = newLocal]
    IN IF changed THEN Emit(s2, [type |-> "onRebase", doc |-> newLocal]) ELSE s2

\* handleDocRebase
HandleDocRebase(s) == Rebase(s)

\* handleDocMutation that passes every message on, local changes or not
HandleDocMutationAlwaysForwards(s, msg) ==
    LET s1 == Emit([s EXCEPT !.local = s.EDGE],
                   [type |-> "onMutation", doc |-> msg.doc])
        s2 == IF s1.EDGE = NULL THEN HandleDocumentDeleted(s1) ELSE s1
    IN Rebase(s2)

\* handleDocMutation
HandleDocMutation(s, msg) ==
    LET s1 == IF s.commits = <<>> /\ s.mutations = <<>>
              THEN Emit([s EXCEPT !.local = s.EDGE],
                        [type |-> "onMutation", doc |-> msg.doc])
              ELSE s
        s2 == IF s1.EDGE = NULL THEN HandleDocumentDeleted(s1) ELSE s1
    IN Rebase(s2)

(* ------------------------------ tracker -------------------------------- *)
\* Document.stage(squashed, true): silent, optimistic staging
Stage(s, squashed) ==
    Emit([s EXCEPT !.pending = Append(@, squashed),
                   !.EDGE = ApplyAll(@, squashed.ops)],
         [type |-> "stage", doc |-> NULL])

\* The tracker recomputes EDGE and reports "rebase required". Whether it
\* also reports a recomputation that left EDGE as it was is the tracker's
\* choice, fixed for a run by eagerTracker.
TrackerRebase(s) ==
    LET edge == ApplyPending(s.HEAD, s.pending)
        s1 == [s EXCEPT !.EDGE = edge]
    IN IF edge # s.EDGE \/ eagerTracker THEN HandleDocRebase(s1) ELSE s1

Without(ps, txn) == SelectSeq(ps, LAMBDA p : p.txn # txn)

Staged(ps, txn) == \E i \in 1..Len(ps) : ps[i].txn = txn

\* docResponder.success(): the staged operation is part of the confirmed state
DocSuccess(s, squashed) ==
    LET s1 == Emit(s, [type |-> "docSuccess", doc |-> NULL])
    IN IF Staged(s.pending, squashed.txn)
       THEN [s1 EXCEPT !.pending = Without(@, squashed.txn),
                       !.HEAD = ApplyAll(@, squashed.ops)]
       ELSE s1

\* docResponder.failure(): the staged operation is withdrawn
DocFailure(s, squashed) ==
    TrackerRebase([Emit(s, [type |-> "docFailure", doc |-> NULL])
                      EXCEPT !.pending = Without(@, squashed.txn)])

\* Document.arrive(mutation) of another client's mutation
TrackerArrive(s, m) ==
    LET s1 == [s EXCEPT !.HEAD = ApplyRemote(@, m)]
    IN IF s1.pending = <<>>
       THEN LET s2 == [s1 EXCEPT !.EDGE = s1.HEAD]
            IN HandleDocMutation(s2, [doc |-> s2.EDGE])
       ELSE TrackerRebase(s1)

\* Document.reset(doc)
TrackerReset(s, doc) == [s EXCEPT !.HEAD = doc, !.EDGE = doc, !.pending = <<>>]

(* --------------------------- committer loop ---------------------------- *)
\* _cycleCommitter that leaves the flag set when it finds the queue empty
CycleCommitterKeepsRunning(s) ==
    IF s.commits = <<>> THEN s
    ELSE LET commit == Head(s.commits)
             squashed == Squash(commit, s.nextTxn + 1)
             s1 == [s EXCEPT !.committerRunning = TRUE,
                             !.commits = Tail(@),
                             !.nextTxn = @ + 1]
             s2 == Stage(s1, squashed)
         IN Emit([s2 EXCEPT !.inflight = @ \cup {[commit |-> commit,
                                                  squashed |-> squashed]}],
                 [type |-> "commitHandler", doc |-> NULL])

\* _cycleCommitter up to the call of the transport handler
CycleCommitter(s) ==
    IF s.commits = <<>> THEN [s EXCEPT !.committerRunning = FALSE]
    ELSE LET commit == Head(s.commits)
             squashed == Squash(commit, s.nextTxn + 1)
             s1 == [s EXCEPT !.committerRunning = TRUE,
                             !.commits = Tail(@),
                             !.nextTxn = @ + 1]
             s2 == Stage(s1, squashed)
         IN Emit([s2 EXCEPT !.inflight = @ \cup {[commit |-> commit,
                                                  squashed |-> squashed]}],
                 [type |-> "commitHandler", doc |-> NULL])

\* performCommits without the "only one committer" return
PerformCommitsUnguarded(s) ==
    IF ~commitHandler THEN [s EXCEPT !.thrown = TRUE]
    ELSE CycleCommitter(s)

\* performCommits that looks for the commitHandler only once it has a commit
\* to send
PerformCommitsLazyCheck(s) ==
    IF s.committerRunning THEN s
    ELSE IF s.commits = <<>> THEN CycleCommitter(s)
    ELSE IF ~commitHandler THEN [s EXCEPT !.thrown = TRUE]
    ELSE CycleCommitter(s)

\* performCommits
PerformCommits(s) ==
    IF ~commitHandler THEN [s EXCEPT !.thrown = TRUE]
    ELSE IF s.committerRunning THEN s
    ELSE CycleCommitter(s)

\* responder.success
ResponderSuccess(s, att) ==
    CycleCommitter(DocSuccess([s EXCEPT !.inflight = @ \ {att}], att.squashed))

\* responder.failure that puts the failed commit at the back of the queue
ResponderFailureToBack(s, att) ==
    LET commit == [att.commit EXCEPT !.tries = @ + 1]
        s1 == [s EXCEPT !.inflight = @ \ {att}]
        s2 == IF s1.local # NULL
              THEN [s1 EXCEPT !.commits = Append(@, commit)]
              ELSE s1
        s3 == DocFailure(s2, att.squashed)
    IN [s3 EXCEPT !.timers = @ + 1]

\* responder.failure that tells the tracker nothing once the document is gone
ResponderFailureSkipsDeleted(s, att) ==
    LET commit == [att.commit EXCEPT !.tries = @ + 1]
        s1 == [s EXCEPT !.inflight = @ \ {att}]
        s2 == IF s1.local # NULL
              THEN [s1 EXCEPT !.commits = <<commit>> \o @]
              ELSE s1
        s3 == IF s1.local # NULL THEN DocFailure(s2, att.squashed) ELSE s2
    IN [s3 EXCEPT !.timers = @ + 1]

\* responder.failure
ResponderFailure(s, att) ==
    LET commit == [att.commit EXCEPT !.tries = @ + 1]
        s1 == [s EXCEPT !.inflight = @ \ {att}]
        s2 == IF s1.local # NULL
              THEN [s1 EXCEPT !.commits = <<commit>> \o @]
              ELSE s1
        s3 == DocFailure(s2, att.squashed)
    IN [s3 EXCEPT !.timers = @ + 1]

(* ------------------------------ actions -------------------------------- *)
NoRun == [active |-> FALSE, added |-> <<>>, sawDeleted |-> FALSE]

Init ==
    /\ HEAD = Doc(0, 0)
    /\ EDGE = Doc(0, 0)
    /\ pending = <<>>
    /\ local = Doc(0, 0)
    /\ mutations = <<>>
    /\ commits = <<>>
    /\ committerRunning = FALSE
    /\ commitHandler \in BOOLEAN
    /\ eagerTracker \in BOOLEAN
    /\ inflight = {}
    /\ timers = 0
    /\ nextTxn = 0
    /\ nextCommit = 0
    /\ nAdds = 0
    /\ nArrivals = 0
    /\ nResets = 0
    /\ op = [name |-> "new", arg |-> "none", commit |-> 0, doc |-> NULL]
    /\ events = <<>>
    /\ thrown = FALSE
    /\ awaitingRetry = {}
    /\ run = NoRun

Bounded(s) == s.nextTxn <= MaxAttempts

\* History. awaitingRetry: the commits whose last attempt failed and that
\* have not been attempted again, forgotten once the authoritative snapshot
\* has been the deleted sentinel. run: the mutations added since add() was
\* called with an empty buffer and queue, with no commit(), performCommits()
\* or committer step since, and whether the authoritative snapshot was the
\* deleted sentinel at some point of that sequence.
History(s, o) ==
    LET staged == {a.commit.id : a \in s.inflight \ inflight}
        failed == IF o.name = "failure" THEN {o.commit} ELSE {}
        kept == IF EDGE = NULL THEN {} ELSE awaitingRetry
        gone == EDGE = NULL \/ s.EDGE = NULL
    IN /\ awaitingRetry' = (kept \cup failed) \ staged
       /\ run' = IF o.name = "add"
                 THEN IF commits = <<>> /\ mutations = <<>>
                      THEN [active |-> TRUE, added |-> <<o.arg>>,
                            sawDeleted |-> gone]
                      ELSE IF run.active
                      THEN [run EXCEPT !.added = Append(@, o.arg),
                                       !.sawDeleted = @ \/ gone]
                      ELSE run
                 ELSE IF o.name \in {"arrive", "reset", "rebase"}
                 THEN IF run.active
                      THEN [run EXCEPT !.sawDeleted = @ \/ gone]
                      ELSE run
                 ELSE NoRun

\* the operation o takes the program to s
Do(s, o) ==
    /\ Bounded(s)
    /\ Become(s)
    /\ op' = o
    /\ History(s, o)

Op(name, arg) == [name |-> name, arg |-> arg, commit |-> 0, doc |-> NULL]

\* add(mutation)
AddTo(s, mutation) ==
    LET oldLocal == s.local
        newLocal == Apply(s.local, mutation)
        s1 == [s EXCEPT !.mutations = Append(@, mutation), !.local = newLocal]
    IN IF oldLocal # newLocal
       THEN Emit(s1, [type |-> "onMutation", doc |-> newLocal])
       ELSE s1

Add(m) ==
    /\ nAdds < MaxAdds
    /\ Do(AddTo(State, m), Op("add", m))
    /\ nAdds' = nAdds + 1
    /\ UNCHANGED <<commitHandler, eagerTracker, nArrivals, nResets>>

\* commit() that forgets to clear the table for the next commit
CommitOnKeepsBuffer(s) ==
    IF s.mutations = <<>> THEN s
    ELSE PerformCommits([s EXCEPT
             !.commits = Append(@, NewCommit(s.nextCommit + 1, s.mutations)),
             !.nextCommit = @ + 1])

\* commit() without the "anything to commit?" return
CommitOnAlways(s) ==
    PerformCommits([s EXCEPT
        !.commits = Append(@, NewCommit(s.nextCommit + 1, s.mutations)),
        !.nextCommit = @ + 1,
        !.mutations = <<>>])

\* commit() that starts the committer before it moves the buffer
CommitOnChecksFirst(s) ==
    IF s.mutations = <<>> THEN s
    ELSE LET s1 == PerformCommits(s)
         IN IF s1.thrown THEN s1
            ELSE [s1 EXCEPT
                     !.commits = Append(@, NewCommit(s.nextCommit + 1,
                                                     s.mutations)),
                     !.nextCommit = @ + 1,
                     !.mutations = <<>>]

\* commit()
CommitOn(s) ==
    IF s.mutations = <<>> THEN s
    ELSE PerformCommits([s EXCEPT
             !.commits = Append(@, NewCommit(s.nextCommit + 1, s.mutations)),
             !.nextCommit = @ + 1,
             !.mutations = <<>>])

Commit ==
    /\ Do(CommitOn(State),
          Op("commit", IF mutations = <<>> THEN "empty" ELSE "buffered"))
    /\ UNCHANGED <<commitHandler, eagerTracker, nAdds, nArrivals, nResets>>

\* performCommits() called by the owner of the document
CallPerformCommits ==
    /\ Do(PerformCommits(State), Op("performCommits", "none"))
    /\ UNCHANGED <<commitHandler, eagerTracker, nAdds, nArrivals, nResets>>

\* the owner assigns bufferedDocument.commitHandler
SetCommitHandler ==
    /\ ~commitHandler
    /\ commitHandler' = TRUE
    /\ Do(State, Op("setCommitHandler", "none"))
    /\ UNCHANGED <<eagerTracker, nAdds, nArrivals, nResets>>

\* the transport calls the success callback of an attempt
TransportSuccess(att) ==
    /\ Do(ResponderSuccess(State, att),
          [Op("success", "none") EXCEPT !.commit = att.commit.id])
    /\ UNCHANGED <<commitHandler, eagerTracker, nAdds, nArrivals, nResets>>

\* the transport calls the failure callback of an attempt
TransportFailure(att) ==
    /\ Do(ResponderFailure(State, att),
          [Op("failure", "none") EXCEPT !.commit = att.commit.id])
    /\ UNCHANGED <<commitHandler, eagerTracker, nAdds, nArrivals, nResets>>

\* a retry timer fires: setTimeout(() => this._cycleCommitter(), 1000)
RetryTimer ==
    /\ timers > 0
    /\ Do(CycleCommitter([State EXCEPT !.timers = @ - 1]), Op("timer", "none"))
    /\ UNCHANGED <<commitHandler, eagerTracker, nAdds, nArrivals, nResets>>

\* arrive(mutation)
Arrive(m) ==
    /\ nArrivals < MaxArrivals
    /\ Do(TrackerArrive(State, m), Op("arrive", m))
    /\ nArrivals' = nArrivals + 1
    /\ UNCHANGED <<commitHandler, eagerTracker, nAdds, nResets>>

\* reset(doc) that forgets to rebase
ResetToWithoutRebase(s, doc) == TrackerReset(s, doc)

\* reset(doc)
ResetTo(s, doc) == Rebase(TrackerReset(s, doc))

Reset(doc) ==
    /\ nResets < MaxResets
    /\ Do(ResetTo(State, doc), [Op("reset", "none") EXCEPT !.doc = doc])
    /\ nResets' = nResets + 1
    /\ UNCHANGED <<commitHandler, eagerTracker, nAdds, nArrivals>>

\* the tracker reports "rebase required" (document.onRebase) after a
\* recomputation that left its snapshot as it was
ReportRebase ==
    /\ eagerTracker
    /\ Do(HandleDocRebase(State), Op("rebase", "none"))
    /\ UNCHANGED <<commitHandler, eagerTracker, nAdds, nArrivals, nResets>>

Next ==
    \/ \E m \in LocalMutations : Add(m)
    \/ Commit
    \/ CallPerformCommits
    \/ SetCommitHandler
    \/ \E att \in inflight : TransportSuccess(att)
    \/ \E att \in inflight : TransportFailure(att)
    \/ RetryTimer
    \/ \E m \in RemoteMutations : Arrive(m)
    \/ \E doc \in ResetDocs : Reset(doc)
    \/ ReportRebase

Spec == Init /\ [][Next]_vars

\* the document whose owner assigned the commitHandler before anything else
InitConfigured == Init /\ commitHandler

NextConfigured ==
    \/ \E m \in LocalMutations : Add(m)
    \/ Commit
    \/ CallPerformCommits
    \/ \E att \in inflight : TransportSuccess(att)
    \/ \E att \in inflight : TransportFailure(att)
    \/ RetryTimer
    \/ \E m \in RemoteMutations : Arrive(m)
    \/ \E doc \in ResetDocs : Reset(doc)
    \/ ReportRebase

SpecConfigured == InitConfigured /\ [][NextConfigured]_vars

(* ------------------------------ properties ----------------------------- *)
Count(seq, type) == Len(SelectSeq(seq, LAMBDA e : e.type = type))

Notifications(seq) ==
    SelectSeq(seq, LAMBDA e : e.type \in {"onMutation", "onRebase", "onDelete"})

\* commit attempts that are staged and await their transport callback, or
\* wait on their retry timer
Outstanding == Cardinality(inflight) + timers

\* the authoritative snapshot with the queue and then the buffer replayed
Derived(edge, cs, ms) == ApplyAll(ApplyCommits(edge, cs), ms)

\* C1: single-flight. In every reachable state at most one commit attempt
\* is outstanding (in flight or waiting on its retry timer), and one is
\* outstanding only while committerRunning is true.
C1_SingleFlight == Outstanding <= 1 /\ (Outstanding = 1 => committerRunning)

\* commit() of a non-empty buffer while an attempt is in flight: the new
\* Commit waits in the queue and nothing was staged
C1_Witness ==
    /\ op.name = "commit" /\ op.arg = "buffered" /\ ~thrown
    /\ Count(events, "stage") = 0
    /\ Cardinality(inflight) = 1
    /\ commits # <<>>

\* C2: retry ordering. No commit is staged while an older commit whose last
\* attempt failed still waits to be attempted again (the document not having
\* been deleted since that failure).
C2_RetryOrdering ==
    \A att \in inflight : \A a \in awaitingRetry : a >= att.commit.id

\* C3: exactly one deletion notification. Every step that takes the
\* authoritative snapshot from non-deleted to the deleted sentinel while the
\* optimistic snapshot is non-null invokes onDelete exactly once.
C3_ExactlyOneDeletion ==
    [][EDGE # NULL /\ EDGE' = NULL /\ local # NULL
          => Count(events', "onDelete") = 1]_vars

\* C4: deleted implies nothing pending. Whenever the authoritative snapshot
\* is the deleted sentinel, the commit queue and the buffer are empty.
C4_DeletedImpliesNothingPending ==
    EDGE = NULL => commits = <<>> /\ mutations = <<>>

\* C5: derived optimistic snapshot. In every reachable state LOCAL equals
\* the authoritative snapshot with the queued commits applied in queue order
\* and then the buffered mutations in insertion order.
C5_DerivedOptimisticSnapshot == local = Derived(EDGE, commits, mutations)

\* C6: add runs. After a sequence of add calls that started with an empty
\* buffer and queue and saw no commit, possibly with remote arrivals and
\* resets in between, the buffer holds exactly the added mutations in order
\* and LOCAL equals applyAll(authoritative snapshot, buffer). Stated for
\* the sequences during which the authoritative snapshot was never the
\* deleted sentinel (a deletion empties the buffer).
C6_AddRun ==
    run.active /\ ~run.sawDeleted
        => mutations = run.added /\ local = ApplyAll(EDGE, mutations)

\* C7: retry until success or deletion. After a failure callback, if the
\* authoritative document still exists, the failed commit is at the front
\* of the queue.
C7_RetryUntilDeleted ==
    op.name = "failure" /\ EDGE # NULL
        => commits # <<>> /\ Head(commits).id = op.commit

\* C8: commit() of a non-empty buffer with a commitHandler configured
\* empties the buffer, leaves LOCAL as it was, fires no onMutation, onRebase
\* or onDelete, and appends exactly one new Commit holding the buffered
\* mutations in order to the queue (whose head the committer may have taken
\* for an attempt within the same call).
C8_CommitMovesBuffer ==
    [][op'.name = "commit" /\ mutations # <<>> /\ commitHandler
          => /\ mutations' = <<>>
             /\ local' = local
             /\ Notifications(events') = <<>>
             /\ ~thrown'
             /\ nextCommit' = nextCommit + 1
             /\ LET c == NewCommit(nextCommit', mutations)
                    staged == inflight' \ inflight
                IN IF staged = {} THEN commits' = Append(commits, c)
                   ELSE \E a \in staged :
                          /\ staged = {a}
                          /\ <<a.commit>> \o commits' = Append(commits, c)]_vars

\* commit() moved a buffer of two mutations into a Commit, which the
\* committer staged within the call
C8_Witness ==
    /\ op.name = "commit" /\ op.arg = "buffered" /\ commitHandler
    /\ mutations = <<>>
    /\ \E a \in inflight : a.commit.mutations = <<"inc", "del">>
                             /\ a.commit.tries = 0

\* C9: commit() with an empty buffer changes nothing, notifies nobody,
\* stages nothing, calls no transport and raises no error, with or without a
\* commitHandler.
C9_EmptyCommitNoOp ==
    [][op'.name = "commit" /\ mutations = <<>>
          => /\ UNCHANGED <<commits, mutations, local, committerRunning,
                            inflight, timers, pending, EDGE, HEAD,
                            nextCommit, nextTxn>>
             /\ events' = <<>>
             /\ ~thrown']_vars

\* commit() on an empty buffer with a commit waiting in the queue, no
\* commitHandler and no committer loop
C9_Witness ==
    /\ op.name = "commit" /\ op.arg = "empty"
    /\ ~commitHandler /\ ~committerRunning
    /\ commits # <<>>

\* C10 as stated: reset(newSnapshot) keeps the queue and the buffer and
\* makes LOCAL newSnapshot with the queue and the buffer replayed, for every
\* newSnapshot.
C10_ResetPreservesAlways ==
    [][op'.name = "reset"
          => /\ commits' = commits
             /\ mutations' = mutations
             /\ local' = Derived(op'.doc, commits, mutations)]_vars

\* C10 amended: so it is for every newSnapshot but the deleted sentinel;
\* reset(deleted sentinel) empties the queue and the buffer and makes LOCAL
\* the deleted sentinel.
C10_ResetPreservesUnlessDeleted ==
    [][op'.name = "reset"
          => IF op'.doc # NULL
             THEN /\ commits' = commits
                  /\ mutations' = mutations
                  /\ local' = Derived(op'.doc, commits, mutations)
             ELSE /\ commits' = <<>>
                  /\ mutations' = <<>>
                  /\ local' = NULL]_vars

\* a reset to an existing document with a commit queued and a mutation
\* buffered, whose replay changed LOCAL
C10_Witness ==
    /\ op.name = "reset" /\ op.doc # NULL
    /\ commits # <<>> /\ mutations # <<>>
    /\ local # op.doc

\* C11: rebase is idempotent in its notifications. From every reachable
\* state, a second run of rebase right after a first one emits neither
\* onRebase nor onDelete and leaves LOCAL as the first run made it.
C11_RebaseIdempotent ==
    LET first == Rebase(State)
        second == Rebase([first EXCEPT !.events = <<>>])
    IN Notifications(second.events) = <<>> /\ second.local = first.local

\* a state in which the first run of rebase handles a deletion and notifies
\* (onDelete and onRebase), so that the second run has something to repeat
C11_Witness ==
    LET first == Rebase(State)
    IN /\ Count(first.events, "onDelete") = 1
       /\ Count(first.events, "onRebase") = 1
       /\ first.local # local

\* C12: a missing transport is a synchronous configuration error. In every
\* reachable state without a commitHandler, performCommits() and commit() on
\* a non-empty buffer raise the error, stage nothing in the tracker, call no
\* transport, leave committerRunning false and schedule no retry; with a
\* commitHandler and a committer loop running, performCommits() returns
\* without any effect.
C12_MissingHandlerThrows ==
    LET viaPerform == PerformCommits(State)
        viaCommit == CommitOn(State)
        Inert(s) == /\ Count(s.events, "stage") = 0
                    /\ Count(s.events, "commitHandler") = 0
                    /\ s.pending = pending /\ s.EDGE = EDGE /\ s.HEAD = HEAD
                    /\ s.inflight = inflight /\ s.timers = timers
                    /\ ~s.committerRunning
    IN /\ ~commitHandler
          => /\ viaPerform.thrown /\ Inert(viaPerform)
             /\ mutations # <<>> => viaCommit.thrown /\ Inert(viaCommit)
       /\ commitHandler /\ committerRunning => viaPerform = State

\* performCommits() was called with a commit in the queue and no
\* commitHandler: it raised, and nothing is in flight
C12_Witness ==
    /\ op.name = "performCommits" /\ thrown /\ ~commitHandler
    /\ commits # <<>> /\ ~committerRunning /\ Outstanding = 0

\* the commits the committer still has to get confirmed: queued or in flight
Live == {commits[i].id : i \in DOMAIN commits}
            \cup {a.commit.id : a \in inflight}

\* C13: eventual drain. Every commit that entered the queue is eventually
\* confirmed by a successful attempt or discarded by a remote deletion. What
\* every finite run must then satisfy: a commit leaves the queue and the
\* attempts in flight only in the step of its own success callback, or in a
\* step before or after which the document is deleted at the remote.
C13_LeavesOnlyConfirmedOrDeleted ==
    [][\A id \in Live :
          id \notin Live'
              => \/ op'.name = "success" /\ op'.commit = id
                 \/ HEAD = NULL
                 \/ HEAD' = NULL]_vars

Queued == {commits[i].id : i \in DOMAIN commits}

C15_DeletionPayload ==
    (commits # <<>> \/ mutations # <<>>) /\ HEAD # NULL
        => LET s == TrackerArrive(State, "del")
           IN /\ \A i \in DOMAIN s.events :
                    s.events[i].type = "onDelete"
                        => s.events[i].doc = local /\ local # NULL
              /\ s.commits = <<>> /\ s.mutations = <<>> /\ s.local = NULL

\* C16: exactly-once side effects per attempt. In every step: as many
\* attempts start as stage calls and as transport calls are made, at most
\* one; the step of a success callback invokes the tracker responder's
\* success once and its failure never, the step of a failure callback the
\* failure once and the success never, each ending exactly the attempt the
\* transport reported on; every other step invokes no responder and ends no
\* attempt, a deletion included.
C16_ExactlyOncePerAttempt ==
    [][LET started == inflight' \ inflight
           ended == inflight \ inflight'
       IN /\ Cardinality(started) = Count(events', "stage")
          /\ Cardinality(started) = Count(events', "commitHandler")
          /\ Cardinality(started) = nextTxn' - nextTxn
          /\ Cardinality(started) <= 1
          /\ \A a \in started : a.squashed.txn = nextTxn'
          /\ Count(events', "docSuccess")
                = IF op'.name = "success" THEN 1 ELSE 0
          /\ Count(events', "docFailure")
                = IF op'.name = "failure" THEN 1 ELSE 0
          /\ IF op'.name \in {"success", "failure"}
             THEN \E a \in inflight :
                     ended = {a} /\ a.commit.id = op'.commit
             ELSE ended = {}]_vars

\* the failure callback of an attempt that was in flight when the document
\* was deleted at the remote: the tracker responder's failure was invoked
C16_Witness ==
    /\ op.name = "failure" /\ HEAD = NULL /\ local = NULL
    /\ Count(events, "docFailure") = 1
    /\ inflight = {}

\* two snapshots differ in something other than the revision marker
ContentDiffers(a, b) == a.exists # b.exists \/ (a.exists /\ a.val # b.val)

\* C17: rebase notifies if and only if content changed. From every
\* reachable state, a run of rebase (on the tracker's report, or at the end
\* of a reset to any snapshot) emits onRebase once, carrying the new LOCAL,
\* if the new LOCAL differs from the previous one in something other than
\* the revision marker, a change to or from the deleted sentinel included,
\* and emits no onRebase otherwise.
C17_RebaseNotifiesIffContentChanged ==
    LET Right(s) ==
            /\ Count(s.events, "onRebase")
                  = IF ContentDiffers(local, s.local) THEN 1 ELSE 0
            /\ \A i \in DOMAIN s.events :
                  s.events[i].type = "onRebase" => s.events[i].doc = s.local
    IN /\ Right(Rebase(State))
       /\ \A doc \in ResetDocs : Right(ResetTo(State, doc))

\* a reset has moved only the revision marker of LOCAL, whose content is not
\* the initial one, and its rebase notified nobody
C17_Witness ==
    /\ op.name = "reset" /\ op.doc # NULL
    /\ local = [op.doc EXCEPT !.val = 1]
    /\ Count(events, "onRebase") = 0

\* C18: remote arrival fast path. In every reachable state in which the
\* tracker has nothing staged, so that it reports an arriving remote
\* mutation to handleDocMutation: if the commit queue and the buffer are
\* empty, LOCAL becomes the tracker's new snapshot, onMutation is invoked
\* once with the tracker's message and no onRebase is emitted; otherwise
\* onMutation is not invoked.
C18_FastPath ==
    pending = <<>>
        => \A m \in RemoteMutations :
              LET s == TrackerArrive(State, m)
              IN IF commits = <<>> /\ mutations = <<>>
                 THEN /\ s.local = s.EDGE
                      /\ s.EDGE = ApplyRemote(HEAD, m)
                      /\ Count(s.events, "onMutation") = 1
                      /\ Count(s.events, "onRebase") = 0
                      /\ \A i \in DOMAIN s.events :
                            s.events[i].type = "onMutation"
                                => s.events[i].doc = s.EDGE
                 ELSE Count(s.events, "onMutation") = 0

\* a remote increment arrived with nothing locally pending: LOCAL is the
\* tracker's snapshot and the only notification is one onMutation
C18_Witness ==
    /\ op.name = "arrive" /\ op.arg = "inc"
    /\ commits = <<>> /\ mutations = <<>> /\ pending = <<>>
    /\ local = EDGE /\ local.val = 1
    /\ Notifications(events) = <<[type |-> "onMutation", doc |-> EDGE]>>

\* C19: no stranded commits. With a commitHandler configured from the
\* start, in every reachable state a non-empty commit queue implies that
\* committerRunning is true, and committerRunning is true exactly when a
\* commit attempt is in flight or a retry timer is pending.
C19_NoStrandedCommits ==
    /\ commits # <<>> => committerRunning
    /\ committerRunning <=> Outstanding >= 1

\* a commit sits in the queue while the committer loop waits on the retry
\* timer of a failed attempt, nothing being in flight
C19_Witness ==
    /\ commitHandler /\ committerRunning
    /\ Len(commits) = 2 /\ inflight = {} /\ timers = 1

\* C20: no edit lost on configuration error. In every reachable state
\* without a commitHandler and with a non-empty buffer, commit() raises the
\* error and leaves the buffered mutations, in order, in a new Commit at the
\* tail of the queue, the buffer empty and LOCAL as it was, notifying
\* nobody. The queue is always in order of creation, and with a
\* commitHandler and no loop running, performCommits() and commit() stage
\* the head of the queue, so a Commit still queued is staged before every
\* newer one.
C20_NoEditLostOnThrow ==
    /\ ~commitHandler /\ mutations # <<>>
          => LET s == CommitOn(State)
             IN /\ s.thrown
                /\ s.mutations = <<>>
                /\ s.local = local
                /\ Notifications(s.events) = <<>>
                /\ s.commits
                      = Append(commits, NewCommit(nextCommit + 1, mutations))
    /\ \A i, j \in DOMAIN commits : i < j => commits[i].id < commits[j].id
    /\ \A a \in inflight : \A i \in DOMAIN commits :
          a.commit.id < commits[i].id
    /\ commitHandler /\ ~committerRunning /\ commits # <<>>
          => /\ LET s == PerformCommits(State)
                IN /\ s.commits = Tail(commits)
                   /\ \E a \in s.inflight : a.commit = Head(commits)
             /\ LET s == CommitOn(State)
                IN \A a \in s.inflight : a.commit = Head(commits)

\* two commit() calls raised the error and left their Commits queued; once
\* the commitHandler was assigned, performCommits() staged the older one
C20_Witness ==
    /\ op.name = "performCommits" /\ ~thrown /\ commitHandler
    /\ Count(events, "stage") = 1
    /\ \E a \in inflight : a.commit.id = 1 /\ a.commit.tries = 0
    /\ Len(commits) = 1 /\ Head(commits).id = 2

====
